---- MODULE Spec2Model ----
(***************************************************************************)
(* Model of the Sudoku board (src/src/gameboard.rs), its controller's      *)
(* event handling and solved-check, the action button's controller         *)
(* (src/src/button.rs) and the event loop that composes them               *)
(* (src/src/main.rs).                                                      *)
(*                                                                         *)
(* Rust arrays are modelled as functions over 0..n-1, so that a[i] in the  *)
(* source is a[i] here.  Option<T> is modelled as a sequence of length at  *)
(* most one: << >> is None and <<v>> is Some(v).                           *)
(*                                                                         *)
(* Pixel coordinates are f64 in the source; the cursor positions drawn     *)
(* here are whole pixels.  For a whole offset x with 0 <= x < 400 the      *)
(* value x / 400.0 * 9.0 is an integer only for x = 0 and is otherwise at  *)
(* least 1/400 away from one, far more than the rounding error of the two  *)
(* floating-point operations, so `as usize` yields (x * 9) \div 400.       *)
(***************************************************************************)
EXTENDS Integers, Sequences, FiniteSets

VARIABLES
    cells,              \* Gameboard.cells: cells[row][column]
    selected_cell,      \* Gameboard.selected_cell: Option<[usize; 2]>
    cursor_pos,         \* GameboardController.cursor_pos
    shift_pressed,      \* GameboardController.shift_pressed
    hovered,            \* Button.hovered
    button_cursor_pos,  \* ButtonController.cursor_pos
    click_signal,       \* what ButtonController::handle_event returned last
    output,             \* what main printed last: Option<bool>
    last_call,          \* history: the last Gameboard call that wrote a cell
    board_pressed,      \* history: a primary press inside the board area happened
    lshift_down,        \* history: the last LShift key event was a press
    edits               \* history: number of cell writes so far

vars == <<cells, selected_cell, cursor_pos, shift_pressed, hovered,
          button_cursor_pos, click_signal, output, last_call, board_pressed, lshift_down,
          edits>>

\* ------------------------------------------------------------------ bounds

\* Cell writes (set / note) the event loop makes per behaviour.
MaxEdits == 2

\* Direct Gameboard calls (set / note) made on a drawn board per behaviour.
MaxCalls == 2

\* ------------------------------------------------------------- basic types

SIZE == 9

None == << >>

Some(v) == <<v>>

\* A two-element Rust array [a, b].
Arr2(a, b) == [i \in 0..1 |-> IF i = 0 THEN a ELSE b]

Indices == 0..(SIZE - 1)

\* Every in-range cell coordinate ind = [column, row].
Coords == {Arr2(x, y) : x \in Indices, y \in Indices}

DefaultCell == [digit |-> 0, notes |-> [i \in 0..8 |-> FALSE]]

NewCells == [row \in Indices |-> [column \in Indices |-> DefaultCell]]

\* --------------------------------------------------------------- Gameboard

get_digit(cs, ind) ==
    LET digit == cs[ind[1]][ind[0]].digit
    IN  IF digit = 0 THEN None ELSE Some(digit)

get_notes(cs, ind) == cs[ind[1]][ind[0]].notes

set_swapped(cs, ind, val) ==
    [cs EXCEPT ![ind[0]][ind[1]].digit = val]

set_clears_notes(cs, ind, val) ==
    [cs EXCEPT ![ind[1]][ind[0]] = [digit |-> val, notes |-> [i \in 0..8 |-> FALSE]]]

set(cs, ind, val) ==
    [cs EXCEPT ![ind[1]][ind[0]].digit = val]

note_clears_digit(cs, ind, val) ==
    LET i == val - 1
    IN  [cs EXCEPT ![ind[1]][ind[0]] =
            [digit |-> 0, notes |-> [@.notes EXCEPT ![i] = ~@]]]

note_sets_flag(cs, ind, val) ==
    LET i == val - 1
    IN  [cs EXCEPT ![ind[1]][ind[0]].notes[i] = TRUE]

note(cs, ind, val) ==
    LET i == val - 1
    IN  [cs EXCEPT ![ind[1]][ind[0]].notes[i] = ~@]

\* ------------------------------------------- GameboardController::check

\* One row of the first loop: fails on an empty cell or a repeated digit.
RECURSIVE row_scan_keeps_zero(_, _, _, _)
row_scan_keeps_zero(cs, row, column, occurrences) ==
    IF column = 9 THEN TRUE
    ELSE LET digit == cs[row][column].digit
         IN  IF digit \in occurrences THEN FALSE
             ELSE row_scan_keeps_zero(cs, row, column + 1, occurrences \cup {digit})

RECURSIVE row_scan_rejects_noted(_, _, _, _)
row_scan_rejects_noted(cs, row, column, occurrences) ==
    IF column = 9 THEN TRUE
    ELSE LET digit == cs[row][column].digit
         IN  IF digit = 0 \/ digit \in occurrences THEN FALSE
             ELSE IF \E i \in 0..8 : cs[row][column].notes[i] THEN FALSE
             ELSE row_scan_rejects_noted(cs, row, column + 1, occurrences \cup {digit})

RECURSIVE row_scan(_, _, _, _)
row_scan(cs, row, column, occurrences) ==
    IF column = 9 THEN TRUE
    ELSE LET digit == cs[row][column].digit
         IN  IF digit = 0 \/ digit \in occurrences THEN FALSE
             ELSE row_scan(cs, row, column + 1, occurrences \cup {digit})

\* One column of the second loop: fails on a repeated digit only.
RECURSIVE column_scan_transposed(_, _, _, _)
column_scan_transposed(cs, column, row, occurrences) ==
    IF row = 9 THEN TRUE
    ELSE LET digit == cs[column][row].digit
         IN  IF digit \in occurrences THEN FALSE
             ELSE column_scan_transposed(cs, column, row + 1, occurrences \cup {digit})

RECURSIVE column_scan(_, _, _, _)
column_scan(cs, column, row, occurrences) ==
    IF row = 9 THEN TRUE
    ELSE LET digit == cs[row][column].digit
         IN  IF digit \in occurrences THEN FALSE
             ELSE column_scan(cs, column, row + 1, occurrences \cup {digit})

\* Cell i of a 3x3 section.
section_column(section, i) == (section % 3) * 3 + (i % 3)

section_row_repeats(section, i) == (section \div 3) * 3 + (i % 3)

section_row(section, i) == (section \div 3) * 3 + (i \div 3)

\* One section of the third loop: fails on a repeated digit only.
RECURSIVE section_scan(_, _, _, _)
section_scan(cs, section, i, occurrences) ==
    IF i = 9 THEN TRUE
    ELSE LET column == section_column(section, i)
             row == section_row(section, i)
             digit == cs[row][column].digit
         IN  IF digit \in occurrences THEN FALSE
             ELSE section_scan(cs, section, i + 1, occurrences \cup {digit})

\* The three loops in order; the first failing group returns false.
check(cs) ==
    /\ \A row \in 0..8 : row_scan(cs, row, 0, {})
    /\ \A column \in 0..8 : column_scan(cs, column, 0, {})
    /\ \A section \in 0..8 : section_scan(cs, section, 0, {})

\* ------------------------------------------------------------------ layout

\* GameboardViewSettigs::default: position and size of the board.
BoardPosition == Arr2(56, 56)

BoardSize == 400

\* ButtonViewSettings::new([498.0, 241.0], [100.0, 30.0]) in main.
ButtonPosition == Arr2(498, 241)

ButtonSize == Arr2(100, 30)

\* ------------------------------------------------------------------ events

\* piston::input::Button values the handlers can be handed.
MouseLeft == [dev |-> "Mouse", code |-> "Left"]

MouseRight == [dev |-> "Mouse", code |-> "Right"]

\* Keys of piston::input::Key: the eleven the handler names, the other shift
\* key and a letter key standing for every key it does not name.
Keys == {"D1", "D2", "D3", "D4", "D5", "D6", "D7", "D8", "D9",
         "Escape", "LShift", "RShift", "A"}

Keyboard(key) == [dev |-> "Keyboard", code |-> key]

DigitKeys == {"D1", "D2", "D3", "D4", "D5", "D6", "D7", "D8", "D9"}

\* The digit a digit key stands for.
KeyDigit(key) ==
    CASE key = "D1" -> 1 [] key = "D2" -> 2 [] key = "D3" -> 3
      [] key = "D4" -> 4 [] key = "D5" -> 5 [] key = "D6" -> 6
      [] key = "D7" -> 7 [] key = "D8" -> 8 [] key = "D9" -> 9

Buttons == {MouseLeft, MouseRight} \cup {Keyboard(key) : key \in Keys}

\* Buttons whose release the event pump reports here: one of each kind the
\* release block tells apart.
ReleasedButtons ==
    {MouseLeft, Keyboard("LShift"), Keyboard("RShift"), Keyboard("D5")}

\* Cursor positions the event pump reports (whole pixels): the window's
\* origin; the board's first pixel (cell [0, 0]); a pixel of the cell in
\* column 4, row 3; the board's right and bottom edge; the button's two
\* inclusive corners and the pixel right of the button.
CursorPoints ==
    {Arr2(0, 0), Arr2(56, 56), Arr2(240, 200),
     Arr2(456, 100), Arr2(100, 456),
     Arr2(498, 241), Arr2(598, 271), Arr2(599, 250)}

\* A GenericEvent as the handlers see it: each accessor gives an Option.
MouseCursorEvent(pos) ==
    [mouse_cursor_args |-> Some(pos), press_args |-> None, release_args |-> None]

PressEvent(button) ==
    [mouse_cursor_args |-> None, press_args |-> Some(button), release_args |-> None]

ReleaseEvent(button) ==
    [mouse_cursor_args |-> None, press_args |-> None, release_args |-> Some(button)]

\* ------------------------------------ GameboardController::handle_event

\* (x / size * 9.0) as usize, for 0 <= x < size.
cell_index_rounded(x, size) == (2 * x * 9 + size) \div (2 * size)

cell_index(x, size) == (x * 9) \div size

\* Some([cell_x, cell_y]) of a press at offset (x, y) from the board's corner.
pressed_cell_swapped(x, y, size) == Arr2(cell_index(y, size), cell_index(x, size))

pressed_cell(x, y, size) == Arr2(cell_index(x, size), cell_index(y, size))

\* The cursor position after the handler's first block.
gameboard_cursor(e, cursor) ==
    IF e.mouse_cursor_args # None THEN e.mouse_cursor_args[1] ELSE cursor

\* selected_cell after the mouse-press block.
select_on_press_edge(e, cursor, selected) ==
    IF e.press_args = Some(MouseLeft)
    THEN LET x == cursor[0] - BoardPosition[0]
             y == cursor[1] - BoardPosition[1]
         IN  IF x >= 0 /\ x <= BoardSize /\ y >= 0 /\ y <= BoardSize
             THEN Some(pressed_cell(x, y, BoardSize))
             ELSE selected
    ELSE selected

select_on_press_unbounded(e, cursor, selected) ==
    IF e.press_args = Some(MouseLeft)
    THEN LET x == cursor[0] - BoardPosition[0]
             y == cursor[1] - BoardPosition[1]
         IN  IF x >= 0 /\ y >= 0
             THEN Some(pressed_cell(x, y, BoardSize))
             ELSE selected
    ELSE selected

select_on_press(e, cursor, selected) ==
    IF e.press_args = Some(MouseLeft)
    THEN LET x == cursor[0] - BoardPosition[0]
             y == cursor[1] - BoardPosition[1]
         IN  IF x >= 0 /\ x < BoardSize /\ y >= 0 /\ y < BoardSize
             THEN Some(pressed_cell(x, y, BoardSize))
             ELSE selected
    ELSE selected

IsKeyPress(e) == e.press_args # None /\ e.press_args[1].dev = "Keyboard"

IsKeyRelease(e) == e.release_args # None /\ e.release_args[1].dev = "Keyboard"

\* shift_pressed after the key-press block's first test and the key-release block.
shift_after_any_release(e, shift) ==
    IF IsKeyPress(e) /\ e.press_args[1].code = "LShift" THEN TRUE
    ELSE IF IsKeyRelease(e) THEN FALSE
    ELSE shift

shift_after(e, shift) ==
    IF IsKeyPress(e) /\ e.press_args[1].code = "LShift" THEN TRUE
    ELSE IF IsKeyRelease(e) /\ e.release_args[1].code = "LShift" THEN FALSE
    ELSE shift

\* The match on key when shift_pressed is true.
note_arms_without_escape(cs, ind, key) ==
    CASE key \in DigitKeys -> note(cs, ind, KeyDigit(key))
      [] OTHER -> cs

note_arms(cs, ind, key) ==
    CASE key = "D1" -> note(cs, ind, 1)
      [] key = "D2" -> note(cs, ind, 2)
      [] key = "D3" -> note(cs, ind, 3)
      [] key = "D4" -> note(cs, ind, 4)
      [] key = "D5" -> note(cs, ind, 5)
      [] key = "D6" -> note(cs, ind, 6)
      [] key = "D7" -> note(cs, ind, 7)
      [] key = "D8" -> note(cs, ind, 8)
      [] key = "D9" -> note(cs, ind, 9)
      [] key = "Escape" -> set(cs, ind, 0)
      [] OTHER -> cs

\* The match on key when shift_pressed is false.
set_arms_default_clears(cs, ind, key) ==
    CASE key \in DigitKeys -> set(cs, ind, KeyDigit(key))
      [] OTHER -> set(cs, ind, 0)

set_arms(cs, ind, key) ==
    CASE key = "D1" -> set(cs, ind, 1)
      [] key = "D2" -> set(cs, ind, 2)
      [] key = "D3" -> set(cs, ind, 3)
      [] key = "D4" -> set(cs, ind, 4)
      [] key = "D5" -> set(cs, ind, 5)
      [] key = "D6" -> set(cs, ind, 6)
      [] key = "D7" -> set(cs, ind, 7)
      [] key = "D8" -> set(cs, ind, 8)
      [] key = "D9" -> set(cs, ind, 9)
      [] key = "Escape" -> set(cs, ind, 0)
      [] OTHER -> cs

\* The cells after the key-press block: selected and shift are the values the
\* earlier blocks of the same call left.
cells_on_key_unselected(e, cs, selected, shift) ==
    IF IsKeyPress(e)
    THEN LET ind == IF selected # None THEN selected[1] ELSE Arr2(0, 0)
             key == e.press_args[1].code
         IN  IF shift THEN note_arms(cs, ind, key) ELSE set_arms(cs, ind, key)
    ELSE cs

cells_on_key_on_release(e, cs, selected, shift) ==
    IF (IsKeyPress(e) \/ IsKeyRelease(e)) /\ selected # None
    THEN LET ind == selected[1]
             key == IF IsKeyPress(e) THEN e.press_args[1].code ELSE e.release_args[1].code
         IN  IF shift THEN note_arms(cs, ind, key) ELSE set_arms(cs, ind, key)
    ELSE cs

cells_on_key(e, cs, selected, shift) ==
    IF IsKeyPress(e) /\ selected # None
    THEN LET ind == selected[1]
             key == e.press_args[1].code
         IN  IF shift THEN note_arms(cs, ind, key) ELSE set_arms(cs, ind, key)
    ELSE cs

\* ---------------------------------------- ButtonController::handle_event

\* "Check if mouse points at button": all four edges inclusive.
points_at_button_exclusive(pos) ==
    LET x == pos[0]
        y == pos[1]
    IN  /\ x >= ButtonPosition[0] /\ x < ButtonPosition[0] + ButtonSize[0]
        /\ y >= ButtonPosition[1] /\ y < ButtonPosition[1] + ButtonSize[1]

points_at_button(pos) ==
    LET x == pos[0]
        y == pos[1]
    IN  /\ x >= ButtonPosition[0] /\ x <= ButtonPosition[0] + ButtonSize[0]
        /\ y >= ButtonPosition[1] /\ y <= ButtonPosition[1] + ButtonSize[1]

button_cursor(e, cursor) ==
    IF e.mouse_cursor_args # None THEN e.mouse_cursor_args[1] ELSE cursor

hovered_after_sticky(e, hov) ==
    IF e.mouse_cursor_args # None /\ points_at_button(e.mouse_cursor_args[1])
    THEN TRUE
    ELSE hov

hovered_after(e, hov) ==
    IF e.mouse_cursor_args # None
    THEN points_at_button(e.mouse_cursor_args[1])
    ELSE hov

\* The handler's return value: true if the button was clicked.
button_clicked(e, cursor) ==
    e.press_args = Some(MouseLeft) /\ points_at_button(cursor)

\* ------------------------------------------------------------ history

NoCall == [fn |-> "new", ind |-> Arr2(0, 0), val |-> 0]

CheckCall == [fn |-> "check", ind |-> Arr2(0, 0), val |-> 0]

SetCall(ind, val) == [fn |-> "set", ind |-> ind, val |-> val]

NoteCall(ind, val) == [fn |-> "note", ind |-> ind, val |-> val]

\* The event is a key press that reaches a match arm calling set or note.
WritesCell(e, selected) ==
    /\ IsKeyPress(e)
    /\ selected # None
    /\ e.press_args[1].code \in DigitKeys \cup {"Escape"}

\* The Gameboard call that arm makes.
DispatchedCall(e, selected, shift) ==
    LET key == e.press_args[1].code
    IN  IF key = "Escape" THEN SetCall(selected[1], 0)
        ELSE IF shift THEN NoteCall(selected[1], KeyDigit(key))
        ELSE SetCall(selected[1], KeyDigit(key))

\* The board area of the layout: the pixels that belong to one of the 81 cells.
InBoardArea(pos) ==
    /\ BoardPosition[0] <= pos[0] /\ pos[0] < BoardPosition[0] + BoardSize
    /\ BoardPosition[1] <= pos[1] /\ pos[1] < BoardPosition[1] + BoardSize

\* ------------------------------------------------------- main's event loop

\* One turn of the loop for event e: the board's handler, the button's
\* handler and, if the button reports a click, the printed check.
MainLoop(e) ==
    LET cursor1   == gameboard_cursor(e, cursor_pos)
        selected1 == select_on_press(e, cursor1, selected_cell)
        shift1    == shift_after(e, shift_pressed)
        cells1    == cells_on_key(e, cells, selected1, shift1)
        bcursor1  == button_cursor(e, button_cursor_pos)
        clicked   == button_clicked(e, bcursor1)
        writes    == WritesCell(e, selected1)
    IN  /\ writes => edits < MaxEdits
        /\ cursor_pos' = cursor1
        /\ selected_cell' = selected1
        /\ shift_pressed' = shift1
        /\ cells' = cells1
        /\ button_cursor_pos' = bcursor1
        /\ hovered' = hovered_after(e, hovered)
        /\ click_signal' = clicked
        /\ output' = IF clicked THEN Some(check(cells1)) ELSE output
        /\ last_call' = IF writes THEN DispatchedCall(e, selected1, shift1)
                        ELSE IF clicked THEN CheckCall
                        ELSE last_call
        /\ board_pressed' =
               (board_pressed \/ (e.press_args = Some(MouseLeft) /\ InBoardArea(cursor1)))
        /\ lshift_down' =
               IF e.press_args = Some(Keyboard("LShift")) THEN TRUE
               ELSE IF e.release_args = Some(Keyboard("LShift")) THEN FALSE
               ELSE lshift_down
        /\ edits' = IF writes THEN edits + 1 ELSE edits

MouseCursor(pos) == MainLoop(MouseCursorEvent(pos))

Press(button) == MainLoop(PressEvent(button))

Release(button) == MainLoop(ReleaseEvent(button))

\* Gameboard::new, GameboardController::new, Button::new, ButtonController::new.
Init ==
    /\ cells = NewCells
    /\ selected_cell = None
    /\ cursor_pos = Arr2(0, 0)
    /\ shift_pressed = FALSE
    /\ hovered = FALSE
    /\ button_cursor_pos = Arr2(0, 0)
    /\ click_signal = FALSE
    /\ output = None
    /\ last_call = NoCall
    /\ board_pressed = FALSE
    /\ lshift_down = FALSE
    /\ edits = 0

Next ==
    \/ \E pos \in CursorPoints : MouseCursor(pos)
    \/ \E button \in Buttons : Press(button)
    \/ \E button \in ReleasedButtons : Release(button)

Spec == Init /\ [][Next]_vars

\* ------------------------------------------- boards handed to the board API

\* Any board can be typed in cell by cell, so the calls below start from a
\* drawn board.  Pattern(a, b, k) holds in row r, column c the digit
\*   ((a * (r % 3) + b * (r \div 3) + c + k) % 9) + 1.
Pattern(a, b, k) ==
    [row \in Indices |-> [column \in Indices |->
        [digit |-> ((a * (row % 3) + b * (row \div 3) + column + k) % 9) + 1,
         notes |-> [i \in 0..8 |-> FALSE]]]]

\* Two solved boards and a relabelling of the first; a board whose rows and
\* sections are duplicate-free but whose columns are not; one whose rows and
\* columns are duplicate-free but whose sections are not; one with nine equal
\* rows; the empty board.
BaseBoards ==
    {Pattern(3, 1, 0), Pattern(3, 2, 0), Pattern(3, 1, 5),
     Pattern(3, 0, 0), Pattern(1, 3, 0), Pattern(0, 0, 0), NewCells}

\* Coordinates the direct calls are made on: two neighbours of one row and
\* one section, one of them with different row and column.
CallCoords == {Arr2(3, 3), Arr2(4, 3)}

UnchangedControllers ==
    UNCHANGED <<selected_cell, cursor_pos, shift_pressed, hovered,
                button_cursor_pos, click_signal, board_pressed, lshift_down>>

\* gameboard.set(ind, val)
CallSet(ind, val) ==
    /\ edits < MaxCalls
    /\ cells' = set(cells, ind, val)
    /\ last_call' = SetCall(ind, val)
    /\ edits' = edits + 1
    /\ UNCHANGED output
    /\ UnchangedControllers

\* gameboard.note(ind, val)
CallNote(ind, val) ==
    /\ edits < MaxCalls
    /\ cells' = note(cells, ind, val)
    /\ last_call' = NoteCall(ind, val)
    /\ edits' = edits + 1
    /\ UNCHANGED output
    /\ UnchangedControllers

\* controller.check(), its result kept as main prints it
CallCheckClearsNotes ==
    /\ output' = Some(check(cells))
    /\ last_call' = CheckCall
    /\ cells' = [row \in Indices |-> [column \in Indices |->
                    [cells[row][column] EXCEPT !.notes = DefaultCell.notes]]]
    /\ UNCHANGED edits
    /\ UnchangedControllers

CallCheck ==
    /\ output' = Some(check(cells))
    /\ last_call' = CheckCall
    /\ UNCHANGED <<cells, edits>>
    /\ UnchangedControllers

InitBoard ==
    /\ cells \in BaseBoards
    /\ selected_cell = None
    /\ cursor_pos = Arr2(0, 0)
    /\ shift_pressed = FALSE
    /\ hovered = FALSE
    /\ button_cursor_pos = Arr2(0, 0)
    /\ click_signal = FALSE
    /\ output = None
    /\ last_call = NoCall
    /\ board_pressed = FALSE
    /\ lshift_down = FALSE
    /\ edits = 0

NextBoard ==
    \/ \E ind \in CallCoords, val \in 0..9 : CallSet(ind, val)
    \/ \E ind \in CallCoords, val \in 1..9 : CallNote(ind, val)
    \/ CallCheck

SpecBoard == InitBoard /\ [][NextBoard]_vars

\* ---------------------------------------------------- Sudoku vocabulary

\* The 27 groups as sets of <<row, column>> pairs, stated from the rules of
\* the puzzle and not from the loops of check.
RowGroup(r) == {<<r, c>> : c \in Indices}

ColumnGroup(c) == {<<r, c>> : r \in Indices}

SectionGroup(s) ==
    {<<r, c>> : r \in {3 * (s \div 3), 3 * (s \div 3) + 1, 3 * (s \div 3) + 2},
                c \in {3 * (s % 3), 3 * (s % 3) + 1, 3 * (s % 3) + 2}}

Groups ==
    {RowGroup(r) : r \in Indices} \cup {ColumnGroup(c) : c \in Indices}
        \cup {SectionGroup(s) : s \in Indices}

DigitAt(b, p) == b[p[1]][p[2]].digit

\* Every group holds each of 1..9 exactly once.
Solved(b) ==
    \A g \in Groups : \A d \in 1..9 :
        Cardinality({p \in g : DigitAt(b, p) = d}) = 1

HasEmptyCell(b) == \E r \in Indices, c \in Indices : b[r][c].digit = 0

DuplicateIn(b, g) ==
    \E p \in g, q \in g : p # q /\ DigitAt(b, p) # 0 /\ DigitAt(b, p) = DigitAt(b, q)

HasDuplicate(b) == \E g \in Groups : DuplicateIn(b, g)

\* Rearrangements of a board: its transpose, its rows in reverse order, two
\* rows of one band exchanged (a solved board stays solved) and two rows of
\* different bands exchanged (rows and columns keep their digits, sections
\* do not).
Transposed(b) == [r \in Indices |-> [c \in Indices |-> b[c][r]]]

RowsReversed(b) == [r \in Indices |-> b[8 - r]]

RowsExchanged(b, r1, r2) ==
    [r \in Indices |-> IF r = r1 THEN b[r2] ELSE IF r = r2 THEN b[r1] ELSE b[r]]

Variants(b) ==
    {b, Transposed(b), RowsReversed(b), RowsExchanged(b, 0, 1), RowsExchanged(b, 2, 3)}

\* ------------------------------------------------------------- properties

\* C1: every board in which each row, each column and each 3x3 section holds
\* each of 1..9 exactly once is accepted by check.
C1_SolvedBoardAccepted ==
    \A b \in Variants(cells) : Solved(b) => check(b) = TRUE

\* C1 witness: check has just returned true on a solved board.
C1_Witness ==
    /\ last_call = CheckCall
    /\ output = Some(TRUE)
    /\ Solved(cells)

\* C2: a board with an empty cell is rejected, wherever the empty cell is and
\* whatever the other cells hold; the new board is rejected.
C2_EmptyCellRejected ==
    /\ \A b \in Variants(cells) : HasEmptyCell(b) => check(b) = FALSE
    /\ \A ind \in Coords : check(set(cells, ind, 0)) = FALSE
    /\ check(NewCells) = FALSE

\* C2 witness: check has just returned false on a board whose only flaw is
\* one empty cell (filling it in gives a solved board).
C2_Witness ==
    /\ last_call = CheckCall
    /\ output = Some(FALSE)
    /\ cells[3][4].digit = 0
    /\ \E d \in 1..9 : Solved(set(cells, Arr2(4, 3), d))

\* C3: a board with the same nonzero digit twice in a row, a column or a
\* section is rejected.
C3_DuplicateRejected ==
    \A b \in Variants(cells) : HasDuplicate(b) => check(b) = FALSE

\* C3 witness: check has just returned false on a board with no empty cell
\* whose rows and sections are duplicate-free but which has a column duplicate.
C3_Witness ==
    /\ last_call = CheckCall
    /\ output = Some(FALSE)
    /\ ~HasEmptyCell(cells)
    /\ \A i \in Indices : ~DuplicateIn(cells, RowGroup(i)) /\ ~DuplicateIn(cells, SectionGroup(i))
    /\ \E c \in Indices : DuplicateIn(cells, ColumnGroup(c))

\* C4: after set(ind, v), get_digit(ind) is Some(v) for v in 1..9 and None
\* for v = 0, on every board and for every coordinate; a second set(ind, v)
\* changes nothing.
C4_SetThenGet ==
    /\ \A ind \in Coords, v \in 0..9 :
          LET b == set(cells, ind, v)
          IN  /\ get_digit(b, ind) = (IF v = 0 THEN None ELSE Some(v))
              /\ set(b, ind, v) = b
    /\ last_call.fn = "set" =>
          get_digit(cells, last_call.ind) =
              (IF last_call.val = 0 THEN None ELSE Some(last_call.val))

\* C4 witness: set has just written a digit that breaks the Sudoku rules of
\* a solved board, and get_digit returns it.
C4_Witness ==
    /\ last_call = SetCall(Arr2(4, 3), 7)
    /\ get_digit(cells, Arr2(4, 3)) = Some(7)
    /\ HasDuplicate(cells)
    /\ \E d \in 1..9 : d # 7 /\ Solved(set(cells, Arr2(4, 3), d))

\* C5: note(ind, d) flips flag d-1 of the cell and keeps its digit and its
\* other eight flags; a second note(ind, d) restores the board.
C5_NoteFlipsOneFlag ==
    \A ind \in Coords, d \in 1..9 :
        LET b == note(cells, ind, d)
            old == cells[ind[1]][ind[0]]
            new == b[ind[1]][ind[0]]
        IN  /\ new.notes[d - 1] = ~old.notes[d - 1]
            /\ \A i \in 0..8 : i # d - 1 => new.notes[i] = old.notes[i]
            /\ new.digit = old.digit
            /\ note(b, ind, d) = cells

\* C5 witness: two note calls on a drawn board with a digit in the cell, the
\* last one note([4, 3], 5), have given back the drawn board.
C5_Witness ==
    /\ edits = 2
    /\ last_call = NoteCall(Arr2(4, 3), 5)
    /\ cells[3][4].digit # 0
    /\ cells \in BaseBoards

\* The cell a pixel of the board area belongs to: column and row are the
\* truncated values of (x - board_x) * 9 / size and (y - board_y) * 9 / size.
Truncated9(offset) ==
    CHOOSE k \in 0..SIZE : k * BoardSize <= offset * 9 /\ offset * 9 < (k + 1) * BoardSize

ClickedColumn(pos) == Truncated9(pos[0] - BoardPosition[0])

ClickedRow(pos) == Truncated9(pos[1] - BoardPosition[1])

\* The step is a primary-button press with the cursor inside the board area.
BoardPress == Press(MouseLeft) /\ InBoardArea(cursor_pos)

\* The step is a press of digit key `key` while a cell is selected.
DigitKeyPress(key) == Press(Keyboard(key)) /\ selected_cell # None

SelectedColumn == selected_cell[1][0]

SelectedRow == selected_cell[1][1]

\* C6: no cell is selected before the first primary press inside the board
\* area; from then on exactly one cell is selected, the selection never
\* returns to None, and every primary press inside the board selects the
\* cell under the cursor.
C6_SelectionLifecycle ==
    /\ [](/\ selected_cell = None <=> ~board_pressed
          /\ selected_cell # None => Len(selected_cell) = 1 /\ selected_cell[1] \in Coords)
    /\ [][selected_cell # None => selected_cell' # None]_vars
    /\ [][BoardPress =>
            selected_cell' = Some(Arr2(ClickedColumn(cursor_pos), ClickedRow(cursor_pos)))]_vars

\* C6 witness: the cell in column 4, row 3 is selected after cell [0, 0] was
\* selected and written to: the later press replaced the selection.
C6_Witness ==
    /\ selected_cell = Some(Arr2(4, 3))
    /\ board_pressed
    /\ cells[0][0].digit # 0

\* C7: a primary press inside the board selects [column, row] with column
\* from x and row from y, and a digit key then writes to cells[row][column],
\* the cell check reads as that row and column, and to no other cell.
C7_ClickSelectsWrittenCell ==
    /\ [][BoardPress =>
            selected_cell' = Some(Arr2(ClickedColumn(cursor_pos), ClickedRow(cursor_pos)))]_vars
    /\ [][\A key \in DigitKeys : DigitKeyPress(key) =>
            /\ ~shift_pressed => cells'[SelectedRow][SelectedColumn].digit = KeyDigit(key)
            /\ \A r \in Indices, c \in Indices :
                  <<r, c>> # <<SelectedRow, SelectedColumn>> => cells'[r][c] = cells[r][c]]_vars

\* C7 witness: after a press at a pixel of row 3, column 4 and key 5, the
\* digit at row 3, column 4 is 5 and the one at row 4, column 3 is not.
C7_Witness ==
    /\ cursor_pos = Arr2(240, 200)
    /\ selected_cell = Some(Arr2(4, 3))
    /\ last_call = SetCall(Arr2(4, 3), 5)
    /\ cells[3][4].digit = 5
    /\ cells[4][3].digit = 0

\* C8: with a cell selected and shift not pressed, digit key d sets the
\* selected cell's digit to d and keeps its nine note flags.
C8_DigitKeySetsDigit ==
    [][\A key \in DigitKeys : DigitKeyPress(key) /\ ~lshift_down =>
          /\ cells'[SelectedRow][SelectedColumn].digit = KeyDigit(key)
          /\ cells'[SelectedRow][SelectedColumn].notes = cells[SelectedRow][SelectedColumn].notes]_vars

\* C8 witness: key 5 without shift has just set the digit of selected cell
\* [0, 0], which carries a note made earlier.
C8_Witness ==
    /\ selected_cell = Some(Arr2(0, 0))
    /\ ~lshift_down
    /\ last_call = SetCall(Arr2(0, 0), 5)
    /\ cells[0][0].digit = 5
    /\ \E i \in 0..8 : cells[0][0].notes[i]

\* C9: with a cell selected and shift pressed and not yet released, digit key
\* d flips note flag d-1 of the selected cell and keeps its digit.  (Shift is
\* Key::LShift, the shift key the handler names.)
C9_ShiftDigitKeyTogglesNote ==
    [][\A key \in DigitKeys : DigitKeyPress(key) /\ lshift_down =>
          LET old == cells[SelectedRow][SelectedColumn]
              new == cells'[SelectedRow][SelectedColumn]
          IN  /\ new.notes[KeyDigit(key) - 1] = ~old.notes[KeyDigit(key) - 1]
              /\ \A i \in 0..8 : i # KeyDigit(key) - 1 => new.notes[i] = old.notes[i]
              /\ new.digit = old.digit]_vars

\* C9 witness: on the empty board, select [0, 0], press shift, press key 5:
\* note index 4 is true and the digit is still 0.
C9_Witness ==
    /\ selected_cell = Some(Arr2(0, 0))
    /\ lshift_down
    /\ edits = 1
    /\ last_call = NoteCall(Arr2(0, 0), 5)
    /\ cells[0][0].notes[4]
    /\ cells[0][0].digit = 0

\* C10: with a cell selected, Escape sets the selected cell's digit to 0 and
\* keeps its note flags, with shift pressed and without.
C10_EscapeClearsDigit ==
    [][Press(Keyboard("Escape")) /\ selected_cell # None =>
          /\ cells'[SelectedRow][SelectedColumn].digit = 0
          /\ cells'[SelectedRow][SelectedColumn].notes = cells[SelectedRow][SelectedColumn].notes]_vars

\* C10 witness: Escape has just been handled with shift pressed on a selected
\* cell that carries a note; its digit is 0 and the note is still there.
C10_Witness ==
    /\ lshift_down
    /\ shift_pressed
    /\ selected_cell = Some(Arr2(4, 3))
    /\ last_call = SetCall(Arr2(4, 3), 0)
    /\ cells[3][4].digit = 0
    /\ \E i \in 0..8 : cells[3][4].notes[i]

\* The button rectangle of the layout, all four edges inclusive.
InButtonRect(pos) ==
    /\ ButtonPosition[0] <= pos[0] /\ pos[0] <= ButtonPosition[0] + ButtonSize[0]
    /\ ButtonPosition[1] <= pos[1] /\ pos[1] <= ButtonPosition[1] + ButtonSize[1]

\* Every event the event pump hands to the handlers here.
Events ==
    {MouseCursorEvent(pos) : pos \in CursorPoints}
        \cup {PressEvent(button) : button \in Buttons}
        \cup {ReleaseEvent(button) : button \in ReleasedButtons}

\* C11: while no cell is selected, a key press (any key, with or without
\* shift) changes no cell and leaves the selection None.
C11_KeysIgnoredWithoutSelection ==
    [][\A key \in Keys : Press(Keyboard(key)) /\ selected_cell = None =>
          cells' = cells /\ selected_cell' = None]_vars

\* C11 witness: LShift was pressed with no cell selected (shift mode is on),
\* the board is untouched, and a press of key 5 in this state is a step that
\* changes nothing.
C11_Witness ==
    /\ selected_cell = None
    /\ shift_pressed
    /\ lshift_down
    /\ cells = NewCells
    /\ ENABLED (Press(Keyboard("D5")) /\ UNCHANGED vars)

\* C12: the button handler returns true exactly on a primary-button press
\* with the tracked cursor inside the button rectangle, edges included.
C12_ClickSignal ==
    /\ [](\A e \in Events :
            button_clicked(e, button_cursor(e, button_cursor_pos)) <=>
                (e.press_args = Some(MouseLeft) /\ InButtonRect(button_cursor_pos)))
    /\ [][click_signal' <=> (Press(MouseLeft) /\ InButtonRect(button_cursor_pos))]_vars

\* C12 witness: a press at the rectangle's far corner has signalled a click.
C12_Witness ==
    /\ click_signal
    /\ button_cursor_pos = Arr2(598, 271)
    /\ output = Some(FALSE)

\* C13: hovered is true iff the button controller's tracked cursor is inside
\* the button rectangle; a pointer move recomputes it, no other event
\* changes it.
C13_HoveredIsDerived ==
    /\ hovered <=> InButtonRect(button_cursor_pos)
    /\ \A pos \in CursorPoints :
          hovered_after(MouseCursorEvent(pos), hovered) = InButtonRect(pos)
    /\ \A e \in Events : e.mouse_cursor_args = None => hovered_after(e, hovered) = hovered

\* C13 witness: the cursor is on the rectangle's first pixel, hovered is true
\* and stayed true through the press that signalled a click.
C13_Witness ==
    /\ hovered
    /\ button_cursor_pos = Arr2(498, 241)
    /\ click_signal

\* C14: a press of a key outside {1..9, Escape, shift} and a primary press
\* outside the board area and the button rectangle change no cell, not the
\* selection, not shift_pressed and not hovered, and signal no click.
C14_UnmappedInputIgnored ==
    [][(\/ \E key \in Keys \ (DigitKeys \cup {"Escape", "LShift"}) : Press(Keyboard(key))
        \/ /\ Press(MouseLeft)
           /\ ~InBoardArea(cursor_pos)
           /\ ~InButtonRect(button_cursor_pos))
       => /\ UNCHANGED <<cells, selected_cell, shift_pressed, hovered>>
          /\ click_signal' = FALSE]_vars

\* C14 witness: a cell with a digit is selected, shift mode is on, the cursor
\* is just outside the button; a press of key A and a primary press are both
\* steps that change nothing.
C14_Witness ==
    /\ selected_cell = Some(Arr2(4, 3))
    /\ cells[3][4].digit = 5
    /\ shift_pressed
    /\ cursor_pos = Arr2(599, 250)
    /\ ENABLED (Press(Keyboard("A")) /\ UNCHANGED vars)
    /\ ENABLED (Press(MouseLeft) /\ UNCHANGED vars)

\* Pixels around the edges of the board and of the button, and inside both.
LayoutProbes ==
    {Arr2(x, y) : x \in {0, 55, 56, 240, 455, 456, 497, 498, 548, 598, 599, 639},
                  y \in {0, 55, 56, 240, 241, 256, 271, 272, 455, 456, 511}}

\* C15: with the application's layout no primary press both selects a cell
\* and signals a click, wherever the cursor is.
C15_PressMatchesOneRegion ==
    /\ click_signal => ~InBoardArea(cursor_pos)
    /\ \A pos \in LayoutProbes \cup CursorPoints :
          ~(/\ select_on_press(PressEvent(MouseLeft), pos, None) # None
            /\ button_clicked(PressEvent(MouseLeft), pos))

\* C15 witness: a click was signalled while a cell selected earlier stays
\* selected.
C15_Witness ==
    /\ click_signal
    /\ selected_cell = Some(Arr2(4, 3))
    /\ InButtonRect(cursor_pos)

\* C16: shift_pressed starts false, is true after a press of the shift key
\* and false after its release, so it always tells whether the last shift-key
\* event was a press; and with a cell selected that flag decides whether a
\* digit key sets the digit or toggles the note.
C16_ShiftFlagTracksKey ==
    /\ [](shift_pressed <=> lshift_down)
    /\ [][\A key \in DigitKeys : DigitKeyPress(key) =>
            cells' = IF shift_pressed
                     THEN note(cells, selected_cell[1], KeyDigit(key))
                     ELSE set(cells, selected_cell[1], KeyDigit(key))]_vars

\* C16 witness: shift was pressed, a digit key toggled a note, and shift has
\* been released since.
C16_Witness ==
    /\ last_call.fn = "note"
    /\ ~shift_pressed
    /\ ~lshift_down
    /\ selected_cell # None

OffsetProbes ==
    {0, 44, 45, 88, 89, 133, 134, 177, 178, 222, 223, 266, 267, 311, 312, 355, 356, 399}

\* Pixels on and next to the board's right and bottom edges.
EdgeProbes ==
    {Arr2(BoardPosition[0] + x, BoardPosition[1] + y) :
        x \in {0, 200, BoardSize - 1, BoardSize}, y \in {0, 200, BoardSize - 1, BoardSize}}

\* C18: every digit is in 0..9 and a selected cell has both coordinates in
\* 0..8; a press on the board's right or bottom edge selects nothing.
C18_DigitsAndSelectionInRange ==
    /\ \A ind \in Coords : cells[ind[1]][ind[0]].digit \in 0..9
    /\ selected_cell # None => selected_cell[1] \in Coords
    /\ \A x \in OffsetProbes : cell_index(x, BoardSize) \in Indices
    /\ \A pos \in EdgeProbes :
          LET selected1 == select_on_press(PressEvent(MouseLeft), pos, selected_cell)
          IN  /\ selected1 # None => selected1[1] \in Coords
              /\ (\/ pos[0] = BoardPosition[0] + BoardSize
                  \/ pos[1] = BoardPosition[1] + BoardSize) => selected1 = selected_cell

\* C18 witness: a cell holding a digit is selected, the cursor is on the
\* board's right edge, and a primary press there leaves the selection alone.
C18_Witness ==
    /\ selected_cell = Some(Arr2(4, 3))
    /\ cells[3][4].digit = 9
    /\ cursor_pos = Arr2(456, 100)
    /\ ENABLED (Press(MouseLeft) /\ UNCHANGED vars)

\* C19: one event changes the contents of at most one cell, the cell selected
\* when the event arrives; pointer moves, pointer presses and key releases
\* change no cell.
C19_OneCellPerEvent ==
    [][/\ \A ind \in Coords :
            cells'[ind[1]][ind[0]] # cells[ind[1]][ind[0]] => selected_cell = Some(ind)
       /\ (\/ \E pos \in CursorPoints : MouseCursor(pos)
           \/ Press(MouseLeft)
           \/ Press(MouseRight)
           \/ \E button \in ReleasedButtons : Release(button))
          => cells' = cells]_vars

\* C19 witness: two cells hold digits, the last write went to the selected
\* cell and left the other one as it was.
C19_Witness ==
    /\ selected_cell = Some(Arr2(4, 3))
    /\ last_call = SetCall(Arr2(4, 3), 5)
    /\ cells[3][4].digit = 5
    /\ cells[0][0].digit = 7
    /\ edits = 2

\* The board with every note flag cleared, and with every note flag set.
NotesCleared(cs) ==
    [row \in Indices |-> [column \in Indices |->
        [cs[row][column] EXCEPT !.notes = [i \in 0..8 |-> FALSE]]]]

NotesAllSet(cs) ==
    [row \in Indices |-> [column \in Indices |->
        [cs[row][column] EXCEPT !.notes = [i \in 0..8 |-> TRUE]]]]

NoteProbes == CallCoords \cup {Arr2(0, 0), Arr2(8, 8)}

\* C20: the result of check depends on the 81 digits only: boards with the
\* same digits and different notes get the same result.
C20_CheckReadsDigitsOnly ==
    /\ check(NotesCleared(cells)) = check(cells)
    /\ check(NotesAllSet(cells)) = check(cells)
    /\ \A ind \in NoteProbes : \A val \in 1..9 : check(note(cells, ind, val)) = check(cells)
    /\ last_call = CheckCall => output = Some(check(NotesCleared(cells)))

\* C20 witness: a solved board with a note flag set has been checked and
\* accepted, as the same digits without notes are.
C20_Witness ==
    /\ last_call = CheckCall
    /\ output = Some(TRUE)
    /\ cells # NotesCleared(cells)
    /\ Solved(NotesCleared(cells))

====
